---- MODULE Spec2Model ----
(***************************************************************************)
(* State-machine model of dashboard.py: one execution of the script is a   *)
(* "run"; the durable state is the three pickle files under models/.       *)
(* Numbers are exact rationals <<numerator, denominator>> (denominator > 0,*)
(* lowest terms) where the script computes in floating point; <<0, 0>>     *)
(* stands for NaN.                                                         *)
(*                                                                         *)
(* Spec      one session, runs one after the other, a model file may be    *)
(*           removed between two runs.                                     *)
(* SpecFault Spec plus damaged model files and failing writes.             *)
(* SpecConc  two sessions executing the script at the same time.           *)
(*                                                                         *)
(* The script stops at line 108 in every run that gets there (NameError),  *)
(* so lines 114-181 have no action: no run reaches them.                   *)
(***************************************************************************)
EXTENDS Integers, Sequences, FiniteSets, TLC

(* ------------------------------------------------------------------ *)
(* Bounds of the model                                                *)
(* ------------------------------------------------------------------ *)

\* Largest number of rows of data/merged.csv that is enumerated.
MaxRows == 2

(* ------------------------------------------------------------------ *)
(* Exact arithmetic                                                   *)
(* ------------------------------------------------------------------ *)

Abs(a) == IF a < 0 THEN -a ELSE a

RECURSIVE GCD(_, _)
GCD(a, b) == IF b = 0 THEN a ELSE GCD(b, a % b)

\* The rational n/d in lowest terms with a positive denominator (d # 0).
Rat(n, d) ==
    LET g == GCD(Abs(n), Abs(d))
        s == IF d < 0 THEN -1 ELSE 1
    IN  << (s * n) \div g, (s * d) \div g >>

NaN == << 0, 0 >>

IsNaN(q) == q[2] = 0

RECURSIVE SumSeq(_)
SumSeq(s) == IF s = << >> THEN 0 ELSE Head(s) + SumSeq(Tail(s))

\* Series.mean(): the arithmetic mean of a non-empty sequence of integers.
Mean(s) == Rat(SumSeq(s), Len(s))

(* ------------------------------------------------------------------ *)
(* Calendar dates <<year, month, day>>                                *)
(* ------------------------------------------------------------------ *)

IsLeap(y) == (y % 4 = 0) /\ ((y % 100 # 0) \/ (y % 400 = 0))

DaysInMonth(y, m) ==
    IF m = 2 THEN (IF IsLeap(y) THEN 29 ELSE 28)
    ELSE IF m \in {4, 6, 9, 11} THEN 30 ELSE 31

RECURSIVE DaysBeforeMonth(_, _)
DaysBeforeMonth(y, m) ==
    IF m = 1 THEN 0 ELSE DaysBeforeMonth(y, m - 1) + DaysInMonth(y, m - 1)

\* pd.Timestamp.toordinal: the proleptic Gregorian ordinal, 0001-01-01 being 1.
toordinal(date) ==
    LET y == date[1] - 1
    IN  y * 365 + (y \div 4) - (y \div 100) + (y \div 400)
          + DaysBeforeMonth(date[1], date[2]) + date[3]

\* AddDay with February always 28 days long.
AddDay_NoLeap(date) ==
    IF date[3] < (IF date[2] = 2 THEN 28 ELSE DaysInMonth(date[1], date[2]))
    THEN << date[1], date[2], date[3] + 1 >>
    ELSE IF date[2] < 12
         THEN << date[1], date[2] + 1, 1 >>
         ELSE << date[1] + 1, 1, 1 >>

\* date + pd.Timedelta(days=1)
AddDay(date) ==
    IF date[3] < DaysInMonth(date[1], date[2])
    THEN << date[1], date[2], date[3] + 1 >>
    ELSE IF date[2] < 12
         THEN << date[1], date[2] + 1, 1 >>
         ELSE << date[1] + 1, 1, 1 >>

\* pd.date_range(start, periods=periods, freq="D")
RECURSIVE date_range(_, _)
date_range(start, periods) ==
    IF periods <= 0 THEN << >>
    ELSE << start >> \o date_range(AddDay(start), periods - 1)

months_order ==
    << "January", "February", "March", "April", "May", "June",
       "July", "August", "September", "October", "November", "December" >>

\* date.strftime("%B") in the C/English locale.
strftime_B(date) ==
    CASE date[2] = 1 -> "January"   [] date[2] = 2 -> "February"
      [] date[2] = 3 -> "March"     [] date[2] = 4 -> "April"
      [] date[2] = 5 -> "May"       [] date[2] = 6 -> "June"
      [] date[2] = 7 -> "July"      [] date[2] = 8 -> "August"
      [] date[2] = 9 -> "September" [] date[2] = 10 -> "October"
      [] date[2] = 11 -> "November" [] OTHER -> "December"

(* ------------------------------------------------------------------ *)
(* The daily table (data/merged.csv read into df)                     *)
(* ------------------------------------------------------------------ *)

Metrics == { "usage", "price", "cost" }

\* The order in which the script fits, writes and loads the three models.
MetricOrder == << "usage", "price", "cost" >>

\* The df column a metric's model is trained on.
Column(m) ==
    CASE m = "usage" -> "usage_kwh"
      [] m = "price" -> "price_per_kwh"
      [] OTHER -> "daily_cost"

\* The rows enumerated: the last day of a year with two different readings
\* and the first day of the next (leap) year; daily_cost = usage * price.
Rows ==
    { [date |-> << 2023, 12, 31 >>, usage_kwh |-> 1, price_per_kwh |-> 1, daily_cost |-> 1],
      [date |-> << 2023, 12, 31 >>, usage_kwh |-> 2, price_per_kwh |-> 3, daily_cost |-> 6],
      [date |-> << 2024, 1, 1 >>, usage_kwh |-> 2, price_per_kwh |-> 1, daily_cost |-> 2] }

\* Every table of at most MaxRows rows: empty, unsorted and duplicate dates included.
Tables == UNION { [1 .. n -> Rows] : n \in 0 .. MaxRows }

RECURSIVE MaxDate(_)
\* df["date"].max() of a non-empty table.
MaxDate(df) ==
    IF Len(df) = 1 THEN df[1].date
    ELSE LET rest == MaxDate(Tail(df))
         IN  IF toordinal(df[1].date) >= toordinal(rest) THEN df[1].date ELSE rest

\* Dates strictly increasing, hence no duplicates: the input contract the
\* specification states for the table (the script itself never tests it).
StrictlyIncreasing(df) ==
    \A i \in 1 .. Len(df) - 1 : toordinal(df[i].date) < toordinal(df[i + 1].date)

(* ------------------------------------------------------------------ *)
(* LinearRegression                                                   *)
(* ------------------------------------------------------------------ *)

NoModel == [coef_ |-> NaN, intercept_ |-> NaN]

\* LinearRegression().fit(X, y) with X the ordinals and y one column of a
\* non-empty df: ordinary least squares on the centred data; when every x is
\* the same the minimum-norm solution has slope 0 and the mean as intercept.
LinearRegressionFit(df, m) ==
    LET n   == Len(df)
        X   == [i \in 1 .. n |-> toordinal(df[i].date)]
        y   == [i \in 1 .. n |-> df[i][Column(m)]]
        Sx  == SumSeq(X)
        Sy  == SumSeq(y)
        cx  == [i \in 1 .. n |-> n * X[i] - Sx]
        cy  == [i \in 1 .. n |-> n * y[i] - Sy]
        Sxy == SumSeq([i \in 1 .. n |-> cx[i] * cy[i]])
        Sxx == SumSeq([i \in 1 .. n |-> cx[i] * cx[i]])
        coef == IF Sxx = 0 THEN << 0, 1 >> ELSE Rat(Sxy, Sxx)
    IN  [coef_ |-> coef,
         intercept_ |-> Rat(Sy * coef[2] - coef[1] * Sx, n * coef[2])]

\* model.predict at one ordinal x: coef_ * x + intercept_.
Predict(model, x) ==
    LET c == model.coef_
        b == model.intercept_
    IN  Rat(c[1] * x * (b[2] \div GCD(c[2], b[2])) + b[1] * (c[2] \div GCD(c[2], b[2])),
            c[2] * (b[2] \div GCD(c[2], b[2])))

(* ------------------------------------------------------------------ *)
(* Files under models/                                                *)
(* ------------------------------------------------------------------ *)

\* A file is absent, empty (just opened with "wb"), garbage (bytes that are
\* no complete pickle) or the pickle of a model.
AbsentFile == [kind |-> "absent", obj |-> NoModel]

EmptyFile == [kind |-> "empty", obj |-> NoModel]

GarbageFile == [kind |-> "garbage", obj |-> NoModel]

\* pickle.dump(model, f) into a file opened with "wb".
pickle_dump(model) == [kind |-> "pickle", obj |-> model]

\* The exception pickle.load / open(..., "rb") raises on a file, "none" if none.
LoadError(file) ==
    CASE file.kind = "absent" -> "FileNotFoundError"
      [] file.kind = "empty" -> "EOFError"
      [] file.kind = "garbage" -> "UnpicklingError"
      [] OTHER -> "none"

\* pickle.load(f) of a file that holds a complete pickle.
pickle_load(file) == file.obj

\* os.path.exists("models/<m>_model.pkl")
os_path_exists(files, m) == files[m].kind # "absent"

\* ModelsPresent testing a path that never exists: every run retrains.
ModelsPresent_WrongPath(files) == FALSE

\* ModelsPresent with "or" for "and": one file is enough to skip training.
ModelsPresent_Or(files) ==
    os_path_exists(files, "usage") \/ os_path_exists(files, "price")
        \/ os_path_exists(files, "cost")

\* The condition of line 36 without its "not": all three model files exist.
ModelsPresent(files) ==
    os_path_exists(files, "usage") /\ os_path_exists(files, "price")
        /\ os_path_exists(files, "cost")

(* ------------------------------------------------------------------ *)
(* State                                                              *)
(* ------------------------------------------------------------------ *)

\* Executions of the script: Spec runs them one after the other (process 1),
\* SpecConc runs two sessions at once.
Procs == { 1, 2 }

HorizonDays == 90

NoModels == [m \in Metrics |-> NoModel]

VARIABLES
    store,               \* models/: metric -> file
    pc,                  \* per run: the statement it is at
    k,                   \* per run: index in MetricOrder of the file being written or loaded
    df,                  \* per run: the table read at line 15
    fitted,              \* per run: the models train_and_save_models fitted
    loaded,              \* per run: usage_model, price_model, cost_model (lines 53-58)
    forecast_df,         \* per run: line 68
    monthly_usage,       \* per run: line 99
    monthly_cost,        \* per run: bound at line 164 only; << >> while unbound
    monthly_usage_cost,  \* per run: line 108
    error,               \* per run: the exception that ended it, "none" if none
    called_train,        \* per run: train_and_save_models was called (line 37)
    wrote,               \* per run: the files it has written completely
    hist,                \* per run: what held when it started (history)
    tampered             \* a model file was deleted or damaged since the last start (history)

vars ==
    << store, pc, k, df, fitted, loaded, forecast_df, monthly_usage, monthly_cost,
       monthly_usage_cost, error, called_train, wrote, hist, tampered >>

outputs == << forecast_df, monthly_usage, monthly_cost, monthly_usage_cost >>

\* hit: the run before trained and wrote all three models, nothing touched the
\*   files since, and this run reads the same table.
\* changed: the run before loaded all three models, nothing touched the files
\*   since, and this run reads a different table.
\* prev_used: the models the run before loaded (NoModels if it did not get there).
\* absent, corrupt: the files missing / unreadable when this run started.
NoHist ==
    [hit |-> FALSE, changed |-> FALSE, prev_used |-> NoModels,
     corrupt |-> {}, absent |-> Metrics]

Init ==
    /\ store = [m \in Metrics |-> AbsentFile]
    /\ pc = [p \in Procs |-> "idle"]
    /\ k = [p \in Procs |-> 1]
    /\ df = [p \in Procs |-> << >>]
    /\ fitted = [p \in Procs |-> NoModels]
    /\ loaded = [p \in Procs |-> NoModels]
    /\ forecast_df = [p \in Procs |-> << >>]
    /\ monthly_usage = [p \in Procs |-> << >>]
    /\ monthly_cost = [p \in Procs |-> << >>]
    /\ monthly_usage_cost = [p \in Procs |-> << >>]
    /\ error = [p \in Procs |-> "none"]
    /\ called_train = [p \in Procs |-> FALSE]
    /\ wrote = [p \in Procs |-> {}]
    /\ hist = [p \in Procs |-> NoHist]
    /\ tampered = FALSE

Ended(p) == pc[p] \in { "done", "failed" }

Running(p) == pc[p] \notin { "idle", "done", "failed" }

\* The run loaded all three models (it got past line 58).
UsedAll(p) == \A m \in Metrics : loaded[p][m] # NoModel

Raise(p, e) ==
    /\ error' = [error EXCEPT ![p] = e]
    /\ pc' = [pc EXCEPT ![p] = "failed"]

(* ------------------------------------------------------------------ *)
(* The script, statement by statement                                 *)
(* ------------------------------------------------------------------ *)

\* Line 15: df = pd.read_csv("data/merged.csv", parse_dates=["date"]); the
\* file holds table s. A fresh execution starts with nothing bound.
Start(p, s) ==
    /\ ~Running(p)
    /\ df' = [df EXCEPT ![p] = s]
    /\ pc' = [pc EXCEPT ![p] = "guard"]
    /\ k' = [k EXCEPT ![p] = 1]
    /\ fitted' = [fitted EXCEPT ![p] = NoModels]
    /\ loaded' = [loaded EXCEPT ![p] = NoModels]
    /\ forecast_df' = [forecast_df EXCEPT ![p] = << >>]
    /\ monthly_usage' = [monthly_usage EXCEPT ![p] = << >>]
    /\ monthly_cost' = [monthly_cost EXCEPT ![p] = << >>]
    /\ monthly_usage_cost' = [monthly_usage_cost EXCEPT ![p] = << >>]
    /\ error' = [error EXCEPT ![p] = "none"]
    /\ called_train' = [called_train EXCEPT ![p] = FALSE]
    /\ wrote' = [wrote EXCEPT ![p] = {}]
    /\ hist' = [hist EXCEPT ![p] =
                  [hit |-> Ended(p) /\ ~tampered /\ called_train[p]
                              /\ wrote[p] = Metrics /\ s = df[p],
                   changed |-> Ended(p) /\ ~tampered /\ UsedAll(p) /\ s # df[p],
                   prev_used |-> IF Ended(p) /\ UsedAll(p) THEN loaded[p] ELSE NoModels,
                   corrupt |-> { m \in Metrics : store[m].kind \in { "empty", "garbage" } },
                   absent |-> { m \in Metrics : ~os_path_exists(store, m) }]]
    /\ tampered' = FALSE
    /\ UNCHANGED store

\* Lines 36-37: call train_and_save_models(df) unless all three files exist.
Guard(p) ==
    /\ pc[p] = "guard"
    /\ IF ModelsPresent(store)
       THEN /\ pc' = [pc EXCEPT ![p] = "load"]
            /\ UNCHANGED called_train
       ELSE /\ pc' = [pc EXCEPT ![p] = "fit"]
            /\ called_train' = [called_train EXCEPT ![p] = TRUE]
    /\ UNCHANGED << store, k, df, fitted, loaded, outputs, error, wrote, hist, tampered >>

\* Lines 19-26: the three fits; fit raises ValueError on a table with no rows.
FitModels(p) ==
    /\ pc[p] = "fit"
    /\ IF Len(df[p]) = 0
       THEN /\ Raise(p, "ValueError")
            /\ UNCHANGED fitted
       ELSE /\ fitted' = [fitted EXCEPT ![p] =
                            [m \in Metrics |-> LinearRegressionFit(df[p], m)]]
            /\ pc' = [pc EXCEPT ![p] = "open"]
            /\ UNCHANGED error
    /\ UNCHANGED << store, k, df, loaded, outputs, called_train, wrote, hist, tampered >>

\* Lines 29, 31, 33: open(path, "wb") creates or truncates the file.
OpenFile(p) ==
    /\ pc[p] = "open"
    /\ store' = [store EXCEPT ![MetricOrder[k[p]]] = EmptyFile]
    /\ pc' = [pc EXCEPT ![p] = "dump"]
    /\ UNCHANGED << k, df, fitted, loaded, outputs, error, called_train, wrote, hist, tampered >>

\* Lines 29, 31, 33 when open raises OSError (no permission, no space): the
\* exception is not caught and ends the run; the file is as it was.
OpenFails(p) ==
    /\ pc[p] = "open"
    /\ Raise(p, "OSError")
    /\ UNCHANGED << store, k, df, fitted, loaded, outputs, called_train, wrote, hist, tampered >>

\* Where the run goes after the k-th file: the next file, or on to `after`.
NextFile(p, again, after) ==
    IF k[p] < Len(MetricOrder)
    THEN /\ k' = [k EXCEPT ![p] = k[p] + 1]
         /\ pc' = [pc EXCEPT ![p] = again]
    ELSE /\ k' = [k EXCEPT ![p] = 1]
         /\ pc' = [pc EXCEPT ![p] = after]

\* Lines 30, 32, 34: pickle.dump(model, f), and the with block closes the file.
Dump(p) ==
    /\ pc[p] = "dump"
    /\ store' = [store EXCEPT ![MetricOrder[k[p]]] = pickle_dump(fitted[p][MetricOrder[k[p]]])]
    /\ wrote' = [wrote EXCEPT ![p] = wrote[p] \cup { MetricOrder[k[p]] }]
    /\ NextFile(p, "open", "load")
    /\ UNCHANGED << df, fitted, loaded, outputs, error, called_train, hist, tampered >>

\* Lines 30, 32, 34 when the write raises OSError: the file is left empty or
\* holding part of the pickle, and the exception ends the run.
DumpFails(p) ==
    /\ pc[p] = "dump"
    /\ \E left \in { EmptyFile, GarbageFile } :
           store' = [store EXCEPT ![MetricOrder[k[p]]] = left]
    /\ Raise(p, "OSError")
    /\ UNCHANGED << k, df, fitted, loaded, outputs, called_train, wrote, hist, tampered >>

\* Lines 53-58: open(path, "rb") and pickle.load(f); any exception ends the run.
LoadModel(p) ==
    /\ pc[p] = "load"
    /\ IF LoadError(store[MetricOrder[k[p]]]) # "none"
       THEN /\ Raise(p, LoadError(store[MetricOrder[k[p]]]))
            /\ UNCHANGED << k, loaded >>
       ELSE /\ loaded' = [loaded EXCEPT ![p][MetricOrder[k[p]]] =
                            pickle_load(store[MetricOrder[k[p]]])]
            /\ NextFile(p, "load", "forecast")
            /\ UNCHANGED error
    /\ UNCHANGED << store, df, fitted, outputs, called_train, wrote, hist, tampered >>

\* Lines 61-73 for a non-empty df.
ForecastFrame(table, models) ==
    LET future_dates == date_range(AddDay(MaxDate(table)), HorizonDays)
    IN  [i \in 1 .. Len(future_dates) |->
           [date |-> future_dates[i],
            forecast_usage |-> Predict(models["usage"], toordinal(future_dates[i])),
            forecast_price |-> Predict(models["price"], toordinal(future_dates[i])),
            forecast_cost |-> Predict(models["cost"], toordinal(future_dates[i]))]]

\* Lines 61-73: on an empty df the maximum is NaT and date_range raises
\* (recorded as ValueError).
Forecast(p) ==
    /\ pc[p] = "forecast"
    /\ IF Len(df[p]) = 0
       THEN /\ Raise(p, "ValueError")
            /\ UNCHANGED forecast_df
       ELSE /\ forecast_df' = [forecast_df EXCEPT ![p] = ForecastFrame(df[p], loaded[p])]
            /\ pc' = [pc EXCEPT ![p] = "seasonality"]
            /\ UNCHANGED error
    /\ UNCHANGED << store, k, df, fitted, loaded, monthly_usage, monthly_cost,
                    monthly_usage_cost, called_train, wrote, hist, tampered >>

\* The values of one column in the rows whose month name is `month`, in row order.
RECURSIVE MonthValues(_, _, _)
MonthValues(table, month, column) ==
    IF table = << >> THEN << >>
    ELSE (IF strftime_B(Head(table).date) = month
          THEN << Head(table)[column] >> ELSE << >>)
             \o MonthValues(Tail(table), month, column)

\* df.groupby("month")[column].mean().reindex(months_order): NaN for a month
\* that has no row.
MonthlyMean(table, column) ==
    [i \in 1 .. Len(months_order) |->
       IF MonthValues(table, months_order[i], column) = << >>
       THEN NaN
       ELSE Mean(MonthValues(table, months_order[i], column))]

\* Lines 91-99.
MonthlyUsage(p) ==
    /\ pc[p] = "seasonality"
    /\ monthly_usage' = [monthly_usage EXCEPT ![p] = MonthlyMean(df[p], "usage_kwh")]
    /\ pc' = [pc EXCEPT ![p] = "grouped"]
    /\ UNCHANGED << store, k, df, fitted, loaded, forecast_df, monthly_cost,
                    monthly_usage_cost, error, called_train, wrote, hist, tampered >>

\* Lines 108-111: the frame of monthly_usage and monthly_cost over months_order.
\* monthly_cost is assigned at line 164 only, so the name is unbound here and
\* the statement raises NameError; nothing after line 108 is executed.
GroupedSeasonality(p) ==
    /\ pc[p] = "grouped"
    /\ IF monthly_cost[p] = << >>
       THEN /\ Raise(p, "NameError")
            /\ UNCHANGED monthly_usage_cost
       ELSE /\ monthly_usage_cost' = [monthly_usage_cost EXCEPT ![p] =
                  [i \in 1 .. Len(months_order) |->
                     [Month |-> months_order[i],
                      Usage |-> monthly_usage[p][i],
                      Cost |-> monthly_cost[p][i]]]]
            /\ pc' = [pc EXCEPT ![p] = "done"]
            /\ UNCHANGED error
    /\ UNCHANGED << store, k, df, fitted, loaded, forecast_df, monthly_usage,
                    monthly_cost, called_train, wrote, hist, tampered >>

Step(p) ==
    \/ Guard(p)
    \/ FitModels(p)
    \/ OpenFile(p)
    \/ Dump(p)
    \/ LoadModel(p)
    \/ Forecast(p)
    \/ MonthlyUsage(p)
    \/ GroupedSeasonality(p)

(* ------------------------------------------------------------------ *)
(* The environment between runs                                       *)
(* ------------------------------------------------------------------ *)

\* Someone removes a model file while no run is in progress (one file
\* between two runs).
DeleteFile(m) ==
    /\ \A p \in Procs : ~Running(p)
    /\ ~tampered
    /\ store[m].kind # "absent"
    /\ store' = [store EXCEPT ![m] = AbsentFile]
    /\ tampered' = TRUE
    /\ UNCHANGED << pc, k, df, fitted, loaded, outputs, error, called_train, wrote, hist >>

\* A model file is damaged (disk error, partial copy) while no run is in progress.
CorruptFile(m) ==
    /\ \A p \in Procs : ~Running(p)
    /\ ~tampered
    /\ store[m].kind = "pickle"
    /\ store' = [store EXCEPT ![m] = GarbageFile]
    /\ tampered' = TRUE
    /\ UNCHANGED << pc, k, df, fitted, loaded, outputs, error, called_train, wrote, hist >>

(* ------------------------------------------------------------------ *)
(* Specifications                                                     *)
(* ------------------------------------------------------------------ *)

\* One session: runs follow one another; a model file may be removed
\* between two runs.
Next ==
    \/ \E s \in Tables : Start(1, s)
    \/ Step(1)
    \/ \E m \in Metrics : DeleteFile(m)

Spec == Init /\ [][Next]_vars

\* One session in which, besides, a model file may be damaged between two
\* runs and opening or writing a model file may fail.
NextFault ==
    \/ Next
    \/ OpenFails(1)
    \/ DumpFails(1)
    \/ \E m \in Metrics : CorruptFile(m)

SpecFault == Init /\ [][NextFault]_vars

\* The tables that meet the input contract: at least one row, dates strictly increasing.
ValidTables == { t \in Tables : Len(t) > 0 /\ StrictlyIncreasing(t) }

\* Two sessions, each executing the script once, interleaved statement by statement.
NextConc ==
    \E p \in Procs :
        \/ \E s \in ValidTables : pc[p] = "idle" /\ Start(p, s)
        \/ Step(p)

SpecConc == Init /\ [][NextConc]_vars

(* ------------------------------------------------------------------ *)
(* Properties                                                         *)
(* ------------------------------------------------------------------ *)

FitAll(table) == [m \in Metrics |-> LinearRegressionFit(table, m)]

ValidDate(date) ==
    /\ date[2] \in 1 .. 12
    /\ date[3] \in 1 .. DaysInMonth(date[1], date[2])

\* The run is past line 73 (its forecast, if any, has been built).
PastForecast(p) == UsedAll(p) /\ pc[p] \in { "seasonality", "grouped", "done", "failed" }

\* The run is past the call of train_and_save_models, which returned.
AfterTrain(p) ==
    \/ pc[p] \in { "load", "forecast", "seasonality", "grouped", "done" }
    \/ pc[p] = "failed" /\ error[p] \notin { "ValueError", "OSError" }
    \/ pc[p] = "failed" /\ UsedAll(p)

\* C1: when the run before left loadable models and this run reads a
\* different (non-empty) table, the models this run forecasts with are the
\* fits of this run's table.
C1_ChangedSeriesRetrains ==
    \A p \in Procs :
        (hist[p].changed /\ Len(df[p]) > 0 /\ UsedAll(p)) => loaded[p] = FitAll(df[p])

\* C2: a run that follows, on the same table and with the files untouched, a
\* run that trained and wrote all three models never calls
\* train_and_save_models, never opens or writes a model file, leaves the
\* three files as they were, and loads exactly the models the first run used.
C2_CacheHitIdempotent ==
    \A p \in Procs :
        hist[p].hit =>
            /\ ~called_train[p]
            /\ wrote[p] = {}
            /\ pc[p] \notin { "fit", "open", "dump" }
            /\ hist[p].prev_used = FitAll(df[p])
            /\ ~tampered => store = [m \in Metrics |-> pickle_dump(hist[p].prev_used[m])]
            /\ \A m \in Metrics : loaded[p][m] \in { NoModel, hist[p].prev_used[m] }
            /\ PastForecast(p) => loaded[p] = hist[p].prev_used

\* C2: such a second run has loaded its models and built its forecast.
C2_Witness ==
    \E p \in Procs : hist[p].hit /\ PastForecast(p) /\ forecast_df[p] # << >>

\* C3: for a non-empty table the forecast has exactly 90 rows, the first dated
\* the day after the table's latest date and each next one the day after the
\* one before, all of them dates of the calendar.
C3_ForecastDates ==
    \A p \in Procs :
        (PastForecast(p) /\ Len(df[p]) > 0) =>
            /\ Len(forecast_df[p]) = 90
            /\ toordinal(forecast_df[p][1].date) = toordinal(MaxDate(df[p])) + 1
            /\ \A i \in 1 .. Len(forecast_df[p]) : ValidDate(forecast_df[p][i].date)
            /\ \A i \in 1 .. Len(forecast_df[p]) - 1 :
                   toordinal(forecast_df[p][i + 1].date)
                       = toordinal(forecast_df[p][i].date) + 1

\* C3: a forecast that starts in one year and runs over 29 February of the next.
C3_Witness ==
    \E p \in Procs :
        /\ PastForecast(p)
        /\ Len(df[p]) = MaxRows
        /\ MaxDate(df[p]) = << 2023, 12, 31 >>
        /\ \E i \in 1 .. Len(forecast_df[p]) : forecast_df[p][i].date = << 2024, 2, 29 >>

\* The rows of a table that fall in the i-th month of months_order.
RowsOfMonth(table, i) == { j \in 1 .. Len(table) : table[j].date[2] = i }

\* C4: a run that got as far as the seasonality section ends without an
\* error and with a summary of exactly twelve entries, January to December,
\* where a month without rows is NaN in both columns and a month with rows
\* is a number in both.
C4_TwelveMonths ==
    \A p \in Procs :
        (Ended(p) /\ monthly_usage[p] # << >>) =>
            /\ error[p] = "none"
            /\ Len(monthly_usage_cost[p]) = 12
            /\ \A i \in 1 .. 12 :
                   /\ monthly_usage_cost[p][i].Month = months_order[i]
                   /\ IsNaN(monthly_usage_cost[p][i].Usage) <=> RowsOfMonth(df[p], i) = {}
                   /\ IsNaN(monthly_usage_cost[p][i].Cost) <=> RowsOfMonth(df[p], i) = {}

\* C5: monthly_cost is bound before the summary is built from it, and the
\* summary a run ends with holds, per month, the mean usage_kwh and the mean
\* daily_cost of that month's rows.
C5_MonthlyMeans ==
    \A p \in Procs :
        /\ (pc[p] \in { "done", "failed" } /\ monthly_usage[p] # << >>)
               => monthly_cost[p] # << >>
        /\ (Ended(p) /\ monthly_usage[p] # << >>) =>
               /\ Len(monthly_usage_cost[p]) = 12
               /\ \A i \in 1 .. 12 :
                      /\ monthly_usage_cost[p][i].Usage = MonthlyMean(df[p], "usage_kwh")[i]
                      /\ monthly_usage_cost[p][i].Cost = MonthlyMean(df[p], "daily_cost")[i]

\* C6: a run that starts with an unreadable model file (and a non-empty
\* table) calls train_and_save_models and never ends on the error of reading
\* that file.
C6_CorruptIsMiss ==
    \A p \in Procs :
        (hist[p].corrupt # {} /\ Len(df[p]) > 0) =>
            /\ pc[p] # "guard" => called_train[p]
            /\ error[p] \notin { "EOFError", "UnpicklingError" }

\* C7: a run whose table has a duplicate date or dates out of order fits no
\* model and writes no file, and ends on a validation error.
C7_ValidationFirst ==
    \A p \in Procs :
        ~StrictlyIncreasing(df[p]) =>
            /\ fitted[p] = NoModels
            /\ wrote[p] = {}
            /\ pc[p] \notin { "fit", "open", "dump" }
            /\ Ended(p) => error[p] = "ValidationError"

\* The run has opened the file of metric m for writing and not yet written it.
HoldsOpen(p, m) == pc[p] = "dump" /\ MetricOrder[k[p]] = m

\* The run is inside train_and_save_models.
InWrite(p) == pc[p] \in { "fit", "open", "dump" }

\* C8: two sessions that read different tables are never inside
\* train_and_save_models at the same time, and no session loads a model file
\* that another has opened for writing and not finished writing.
C8_SlotAtomic ==
    /\ [](\A p, q \in Procs : (p # q /\ df[p] # df[q]) => ~(InWrite(p) /\ InWrite(q)))
    /\ [][\A p, q \in Procs :
            (p # q /\ LoadModel(p)) => ~HoldsOpen(q, MetricOrder[k[p]])]_vars

\* C9: a run does not end on the error of a failed write: having fitted its
\* models it goes on to forecast with them.
C9_WriteFailureNotFatal ==
    \A p \in Procs : ~(pc[p] = "failed" /\ error[p] = "OSError" /\ fitted[p] # NoModels)

====
